---- MODULE Spec2Model ----
(***************************************************************************)
(* StoryTime TTS (src/App.tsx): the App component's state, its handlers    *)
(* parseFile, generateAll, previewSample, downloadAll, reset, and the      *)
(* render guards that decide which handler the user can reach.             *)
(*                                                                         *)
(* A step of the model is one uninterrupted piece of JavaScript: a handler *)
(* runs from its start to its first await, and a continuation runs from    *)
(* the settled await to the next one.  All setState calls of one piece are *)
(* rendered together before the next user event is handled.                *)
(***************************************************************************)
EXTENDS Integers, Sequences, FiniteSets, TLC

(***************************************************************************)
(* Bounds of the model.                                                    *)
(***************************************************************************)
\* the longest story file has this many pages
MaxPages == 3
\* generateAll runs that may be waiting for generateSpeech together
MaxRuns == 2
\* file reads, previews and archive builds that may be waiting for their
\* collaborator together
MaxPending == 1
\* object URLs handed out by URL.createObjectURL before the model stops
MaxUrls == 3
\* the pieces a file's text is put together from when parseFile is checked
\* on its own
MaxPieces == 4

(***************************************************************************)
(* Text.  A string is a sequence of one-character strings.                 *)
(***************************************************************************)
IsSpace(c) == c \in {" ", "\n", "\t"}

IsDigit(c) == c \in {"0", "1", "2", "3", "4", "5", "6", "7", "8", "9"}

\* String.prototype.toLowerCase on the letters of the marker word
Lower(c) ==
    CASE c = "P" -> "p"
      [] c = "A" -> "a"
      [] c = "G" -> "g"
      [] c = "E" -> "e"
      [] OTHER -> c

\* length of the run of spaces (kind "space") or digits (kind "digit") of s
\* that starts at position i
RECURSIVE RunLen(_, _, _)
RunLen(s, i, kind) ==
    IF i > Len(s) THEN 0
    ELSE IF (kind = "space" /\ IsSpace(s[i])) \/ (kind = "digit" /\ IsDigit(s[i]))
         THEN 1 + RunLen(s, i + 1, kind)
         ELSE 0

\* /Page\s+\d+/i anchored at position i: the length of the match, 0 if none.
\* \s+ and \d+ are greedy and match disjoint character classes, so the match
\* is the whole run of spaces followed by the whole run of digits.
MatchLen(s, i) ==
    IF i + 3 > Len(s) THEN 0
    ELSE IF <<Lower(s[i]), Lower(s[i + 1]), Lower(s[i + 2]), Lower(s[i + 3])>>
            # <<"p", "a", "g", "e">>
         THEN 0
         ELSE LET sp == RunLen(s, i + 4, "space")
                  dg == RunLen(s, i + 4 + sp, "digit")
              IN  IF sp >= 1 /\ dg >= 1 THEN 4 + sp + dg ELSE 0

\* text.split(/Page\s+\d+/i): the fragments between the matches, scanning
\* left to right; cur is the fragment being collected
RECURSIVE SplitFrom(_, _, _)
SplitFrom(s, i, cur) ==
    IF i > Len(s) THEN <<cur>>
    ELSE LET m == MatchLen(s, i)
         IN  IF m > 0 THEN <<cur>> \o SplitFrom(s, i + m, <<>>)
             ELSE SplitFrom(s, i + 1, Append(cur, s[i]))

split(s) == SplitFrom(s, 1, <<>>)

\* String.prototype.trim
RECURSIVE TrimLeft(_)
TrimLeft(s) ==
    IF s # <<>> /\ IsSpace(Head(s)) THEN TrimLeft(Tail(s)) ELSE s

RECURSIVE TrimRight(_)
TrimRight(s) ==
    IF s # <<>> /\ IsSpace(s[Len(s)]) THEN TrimRight(SubSeq(s, 1, Len(s) - 1)) ELSE s

trim(s) == TrimRight(TrimLeft(s))

\* Array.prototype.filter
RECURSIVE SelectNonBlank(_)
SelectNonBlank(fs) ==
    IF fs = <<>> THEN <<>>
    ELSE IF Len(trim(Head(fs))) > 0
         THEN <<Head(fs)>> \o SelectNonBlank(Tail(fs))
         ELSE SelectNonBlank(Tail(fs))

pageId_ZeroBased(index) == index

\* the id parseFile gives the fragment at 0-based index `index`
pageId(index) == index + 1

\* parseFile, lines 42-47: split, drop blank fragments, number the rest
newPages(text) ==
    LET parts == SelectNonBlank(split(text))
    IN  [k \in 1..Len(parts) |-> [id |-> pageId(k - 1), content |-> trim(parts[k])]]

(***************************************************************************)
(* Story files the user can select.                                        *)
(***************************************************************************)
\* the body text of the k-th page of a story
Letter(k) ==
    CASE k = 1 -> <<"a">>
      [] k = 2 -> <<"b", " ", "P", "a", "g", "e", " ", "b">>
      [] k = 3 -> <<"P", "a", "g", "e", " ", "c">>
      [] OTHER -> <<"d">>

\* the marker before the k-th page: the numerals are not the positions, and
\* the case and the spacing vary
Marker(k) ==
    CASE k = 1 -> <<"P", "a", "g", "e", " ", "1">>
      [] k = 2 -> <<"P", "A", "G", "E", " ", "\n", "7", "0">>
      [] k = 3 -> <<"p", "a", "g", "e", "\t", "1">>
      [] OTHER -> <<"P", "a", "g", "e", " ", "2">>

\* "\nPage 1\na\nPAGE \n70\nb Page b\n..." with n markers
RECURSIVE StoryText(_)
StoryText(n) ==
    IF n = 0 THEN <<"\n">>
    ELSE StoryText(n - 1) \o Marker(n) \o <<"\n">> \o Letter(n) \o <<"\n">>

\* a file without pages, a one-page story and the longest story
Files == {StoryText(0), StoryText(1), StoryText(MaxPages)}

(***************************************************************************)
(* Voice configuration (src/types.ts, src/App.tsx lines 22-24).            *)
(***************************************************************************)
EMOTIONS == {"Calm", "Happy", "Sad", "Shy", "Gentle", "Excited"}
TONES == {"Soft", "Warm", "Friendly"}
SPEEDS == {"Slow", "Normal", "Fast"}

\* the values the user picks in the model
PickedEmotions == {"Gentle", "Happy"}
PickedTones == {"Warm"}
PickedSpeeds == {"Normal"}

\* useState<TTSConfig>(...) initial value
InitConfig == [emotion |-> "Gentle", tone |-> "Warm", speed |-> "Normal"]

(***************************************************************************)
(* Collaborators.                                                          *)
(***************************************************************************)
\* the clip ttsService.generateSpeech resolves to for (text, config)
generateSpeech(text, cfg) == [text |-> text, config |-> cfg]

callOf_DefaultConfig(page, cfg) == [text |-> page.content, config |-> InitConfig]

\* the arguments of ttsService.generateSpeech(page.content, config), line 73
callOf(page, cfg) == [text |-> page.content, config |-> cfg]

\* messages a rejected generateSpeech may carry; "" stands for no message
ErrMessages == {"", "quota exceeded"}

\* `Page_${page.id}.wav`
filename(id) == <<"Page_", id, ".wav">>

\* content.slice(0, 100)
PreviewChars == 100
slice(s, n) == SubSeq(s, 1, IF Len(s) < n THEN Len(s) ELSE n)

\* JSZip.file(name, blob): a later entry of the same name replaces the earlier
zipFile(zip, name, blob) ==
    SelectSeq(zip, LAMBDA e : e.name # name) \o <<[name |-> name, blob |-> blob]>>

RECURSIVE zipAll(_, _)
zipAll(zip, rs) ==
    IF rs = <<>> THEN zip
    ELSE zipAll(zipFile(zip, Head(rs).filename, Head(rs).blob), Tail(rs))

\* s without its i-th element
RemoveAt(s, i) == SubSeq(s, 1, i - 1) \o SubSeq(s, i + 1, Len(s))

(***************************************************************************)
(* State.                                                                  *)
(***************************************************************************)
VARIABLES
    file,          \* useState<File | null>: <<>> is null, <<text>> a file with that text
    pages,         \* useState<StoryPage[]>
    config,        \* useState<TTSConfig>
    isProcessing,  \* useState(false)
    results,       \* useState<GeneratedAudio[]>
    error,         \* useState<string | null>: "null" is null
    progress,      \* useState({ current, total })
    reads,         \* parseFile calls waiting for selectedFile.text()
    runs,          \* generateAll calls waiting for generateSpeech: the closure's
                   \* pages and config, the index of the page in flight, and the
                   \* arguments passed to generateSpeech so far
    previews,      \* previewSample calls waiting for generateSpeech
    downloads,     \* downloadAll calls waiting for zip.generateAsync
    urlCount,      \* object URLs created so far (none is ever revoked)
    saved,         \* the archive last handed to saveAs: <<>> is none
    lastOp         \* the step taken last

appVars == <<file, pages, config, isProcessing, results, error, progress>>
vars == <<file, pages, config, isProcessing, results, error, progress,
          reads, runs, previews, downloads, urlCount, saved, lastOp>>

\* the object URLs that are live: URL.createObjectURL (lines 74 and 99) hands
\* out a fresh one per call, and the component calls URL.revokeObjectURL
\* nowhere
liveUrls == 1..urlCount

\* calls other than generateAll waiting for a collaborator
pending == Len(reads) + Len(previews) + Len(downloads)

Init ==
    /\ file = <<>>
    /\ pages = <<>>
    /\ config = InitConfig
    /\ isProcessing = FALSE
    /\ results = <<>>
    /\ error = "null"
    /\ progress = [current |-> 0, total |-> 0]
    /\ reads = <<>>
    /\ runs = <<>>
    /\ previews = <<>>
    /\ downloads = <<>>
    /\ urlCount = 0
    /\ saved = <<>>
    /\ lastOp = "init"

(***************************************************************************)
(* What the component renders (the JSX guards of lines 124-312).           *)
(***************************************************************************)
\* line 124
isComplete == Len(results) > 0 /\ Len(results) = Len(pages) /\ ~isProcessing

\* line 138
errorBanner == error # "null"

\* line 146: the upload panel with the file input
uploadPanel == file = <<>>

\* line 162: the panel with the voice controls, Preview Voice, the trash
\* button and Generate All Pages
generatePanel_NoBusyCheck ==
    file # <<>> /\ Len(pages) > 0 /\ Len(results) = 0

generatePanel ==
    file # <<>> /\ Len(pages) > 0 /\ Len(results) = 0 /\ ~isProcessing

\* lines 259 and 277: the card with the clips, Download All and Reset
resultsCard == (isProcessing \/ Len(results) > 0) /\ Len(results) > 0

\* line 296
downloadButton == resultsCard /\ isComplete

\* lines 231 and 305: either button calls reset
resetButton == generatePanel \/ resultsCard

(***************************************************************************)
(* parseFile, lines 39-62.                                                 *)
(***************************************************************************)
\* handleFileChange -> parseFile up to `await selectedFile.text()`
handleFileChange(f) ==
    /\ uploadPanel
    /\ pending < MaxPending
    /\ reads' = Append(reads, f)
    /\ lastOp' = "selectFile"
    /\ UNCHANGED <<appVars, runs, previews, downloads, urlCount, saved>>

\* text() resolved: lines 42-52
ReadOk(i) ==
    /\ i \in 1..Len(reads)
    /\ pages' = newPages(reads[i])
    /\ file' = <<reads[i]>>
    /\ results' = <<>>
    /\ error' = "null"
    /\ reads' = RemoveAt(reads, i)
    /\ lastOp' = "readOk"
    /\ UNCHANGED <<config, isProcessing, progress, runs, previews, downloads,
                   urlCount, saved>>

\* text() rejected: line 54
ReadFail(i) ==
    /\ i \in 1..Len(reads)
    /\ error' = "Failed to read the file. Please ensure it is a valid text file."
    /\ reads' = RemoveAt(reads, i)
    /\ lastOp' = "readFail"
    /\ UNCHANGED <<file, pages, config, isProcessing, results, progress, runs,
                   previews, downloads, urlCount, saved>>

(***************************************************************************)
(* generateAll, lines 64-92.                                               *)
(***************************************************************************)
generateAllReturnsEarly_Never(pgs) == FALSE

\* line 65
generateAllReturnsEarly(pgs) == Len(pgs) = 0

\* the handler from its start to the first `await generateSpeech`; over an
\* empty array the for loop ends at once and the finally block runs
generateAll ==
    IF generateAllReturnsEarly(pages)
    THEN UNCHANGED <<isProcessing, results, progress, runs>>
    ELSE /\ results' = <<>>
         /\ progress' = [current |-> 0, total |-> Len(pages)]
         /\ IF Len(pages) = 0
            THEN isProcessing' = FALSE /\ UNCHANGED runs
            ELSE /\ isProcessing' = TRUE
                 /\ runs' = Append(runs, [pages |-> pages, config |-> config,
                                          idx |-> 1,
                                          calls |-> <<callOf(pages[1], config)>>])

\* the Generate All Pages button, line 247
GenerateAll ==
    /\ generatePanel
    /\ Len(runs) < MaxRuns
    /\ generateAll
    /\ lastOp' = "generateAll"
    /\ UNCHANGED <<file, pages, config, error, reads, previews, downloads,
                   urlCount, saved>>

\* generateSpeech resolved for the page in flight of run r: lines 74-85, then
\* either the next iteration up to its await or the finally block (once
\* MaxUrls object URLs exist the model lets calls only fail)
SynthOk(r) ==
    /\ r \in 1..Len(runs)
    /\ urlCount < MaxUrls
    /\ LET run == runs[r]
           page == run.pages[run.idx]
           call == run.calls[run.idx]
           blob == generateSpeech(call.text, call.config)
           url == urlCount + 1
           newResult == [pageId |-> page.id, blob |-> blob, url |-> url,
                         filename |-> filename(page.id)]
       IN  /\ urlCount' = url
           /\ results' = Append(results, newResult)
           /\ progress' = [progress EXCEPT !.current = @ + 1]
           /\ IF run.idx < Len(run.pages)
              THEN /\ runs' = [runs EXCEPT
                                 ![r].idx = @ + 1,
                                 ![r].calls = Append(@, callOf(run.pages[run.idx + 1],
                                                              run.config))]
                   /\ lastOp' = "pageDone"
                   /\ UNCHANGED isProcessing
              ELSE /\ runs' = RemoveAt(runs, r)
                   /\ isProcessing' = FALSE
                   /\ lastOp' = "runDone"
    /\ UNCHANGED <<file, pages, config, error, reads, previews, downloads, saved>>

SynthFail_NoFinally(r, msg) ==
    /\ r \in 1..Len(runs)
    /\ error' = (IF msg # "" THEN msg
                 ELSE "An error occurred during audio generation.")
    /\ runs' = RemoveAt(runs, r)
    /\ lastOp' = "runFailed"
    /\ UNCHANGED <<file, pages, config, isProcessing, results, progress, reads,
                   previews, downloads, urlCount, saved>>

\* generateSpeech rejected for the page in flight of run r: lines 86-91
SynthFail(r, msg) ==
    /\ r \in 1..Len(runs)
    /\ error' = (IF msg # "" THEN msg
                 ELSE "An error occurred during audio generation.")
    /\ isProcessing' = FALSE
    /\ runs' = RemoveAt(runs, r)
    /\ lastOp' = "runFailed"
    /\ UNCHANGED <<file, pages, config, results, progress, reads, previews,
                   downloads, urlCount, saved>>

(***************************************************************************)
(* previewSample, lines 94-105.                                            *)
(***************************************************************************)
\* the Preview Voice button, line 210, up to `await generateSpeech`
previewSample ==
    /\ generatePanel
    /\ pending < MaxPending
    /\ IF Len(pages) = 0
       THEN UNCHANGED previews
       ELSE previews' = Append(previews,
                               [text |-> slice(pages[1].content, PreviewChars),
                                config |-> config])
    /\ lastOp' = "previewSample"
    /\ UNCHANGED <<appVars, reads, runs, downloads, urlCount, saved>>

\* generateSpeech resolved: lines 99-101
PreviewOk(i) ==
    /\ i \in 1..Len(previews)
    /\ urlCount < MaxUrls
    /\ urlCount' = urlCount + 1
    /\ previews' = RemoveAt(previews, i)
    /\ lastOp' = "previewOk"
    /\ UNCHANGED <<appVars, reads, runs, downloads, saved>>

PreviewFail_StopsRun(i) ==
    /\ i \in 1..Len(previews)
    /\ error' = "Failed to preview audio."
    /\ isProcessing' = FALSE
    /\ previews' = RemoveAt(previews, i)
    /\ lastOp' = "previewFail"
    /\ UNCHANGED <<file, pages, config, results, progress, reads, runs,
                   downloads, urlCount, saved>>

\* generateSpeech rejected: line 103
PreviewFail(i) ==
    /\ i \in 1..Len(previews)
    /\ error' = "Failed to preview audio."
    /\ previews' = RemoveAt(previews, i)
    /\ lastOp' = "previewFail"
    /\ UNCHANGED <<file, pages, config, isProcessing, results, progress, reads,
                   runs, downloads, urlCount, saved>>

(***************************************************************************)
(* downloadAll, lines 107-114.                                             *)
(***************************************************************************)
\* the Download All button, line 298, up to `await zip.generateAsync`
downloadAll ==
    /\ downloadButton
    /\ pending < MaxPending
    /\ downloads' = Append(downloads, zipAll(<<>>, results))
    /\ lastOp' = "downloadAll"
    /\ UNCHANGED <<appVars, reads, runs, previews, urlCount, saved>>

\* generateAsync resolved: line 113
DownloadOk(i) ==
    /\ i \in 1..Len(downloads)
    /\ saved' = <<[name |-> "Story_Audio_Pack.zip", entries |-> downloads[i]]>>
    /\ downloads' = RemoveAt(downloads, i)
    /\ lastOp' = "downloadOk"
    /\ UNCHANGED <<appVars, reads, runs, previews, urlCount>>

\* generateAsync rejected: nothing catches it, the handler's promise rejects
DownloadFail(i) ==
    /\ i \in 1..Len(downloads)
    /\ downloads' = RemoveAt(downloads, i)
    /\ lastOp' = "downloadFail"
    /\ UNCHANGED <<appVars, reads, runs, previews, urlCount, saved>>

(***************************************************************************)
(* reset, lines 116-122, and the small handlers of the JSX.                *)
(***************************************************************************)
\* the trash button (line 231) or the Reset / Start New button (line 305)
reset ==
    /\ resetButton
    /\ file' = <<>>
    /\ pages' = <<>>
    /\ results' = <<>>
    /\ error' = "null"
    /\ progress' = [current |-> 0, total |-> 0]
    /\ lastOp' = "reset"
    /\ UNCHANGED <<config, isProcessing, reads, runs, previews, downloads,
                   urlCount, saved>>

\* the banner's close button, line 141
DismissError ==
    /\ errorBanner
    /\ error' = "null"
    /\ lastOp' = "dismissError"
    /\ UNCHANGED <<file, pages, config, isProcessing, results, progress, reads,
                   runs, previews, downloads, urlCount, saved>>

\* the Emotion select, line 175
SetEmotion(e) ==
    /\ generatePanel
    /\ config' = [config EXCEPT !.emotion = e]
    /\ lastOp' = "setConfig"
    /\ UNCHANGED <<file, pages, isProcessing, results, error, progress, reads,
                   runs, previews, downloads, urlCount, saved>>

\* the Tone select, line 185
SetTone(t) ==
    /\ generatePanel
    /\ config' = [config EXCEPT !.tone = t]
    /\ lastOp' = "setConfig"
    /\ UNCHANGED <<file, pages, isProcessing, results, error, progress, reads,
                   runs, previews, downloads, urlCount, saved>>

\* the Speech Speed buttons, line 197
SetSpeed(sp) ==
    /\ generatePanel
    /\ config' = [config EXCEPT !.speed = sp]
    /\ lastOp' = "setConfig"
    /\ UNCHANGED <<file, pages, isProcessing, results, error, progress, reads,
                   runs, previews, downloads, urlCount, saved>>

(***************************************************************************)
(* The component driven through what it renders.                           *)
(***************************************************************************)
Next ==
    \/ \E f \in Files : handleFileChange(f)
    \/ \E i \in 1..MaxPending : ReadOk(i)
    \/ \E i \in 1..MaxPending : ReadFail(i)
    \/ GenerateAll
    \/ \E r \in 1..MaxRuns : SynthOk(r)
    \/ \E r \in 1..MaxRuns, msg \in ErrMessages : SynthFail(r, msg)
    \/ previewSample
    \/ \E i \in 1..MaxPending : PreviewOk(i)
    \/ \E i \in 1..MaxPending : PreviewFail(i)
    \/ downloadAll
    \/ \E i \in 1..MaxPending : DownloadOk(i)
    \/ \E i \in 1..MaxPending : DownloadFail(i)
    \/ reset
    \/ DismissError
    \/ \E e \in PickedEmotions : SetEmotion(e)
    \/ \E t \in PickedTones : SetTone(t)
    \/ \E sp \in PickedSpeeds : SetSpeed(sp)

Spec == Init /\ [][Next]_vars

(***************************************************************************)
(* The same component with generateAll also called as a function while     *)
(* pages is empty, which no rendered button does (line 162 hides the       *)
(* button then).                                                           *)
(***************************************************************************)
GenerateAllNoPages ==
    /\ Len(pages) = 0
    /\ generateAll
    /\ lastOp' = "generateAllNoPages"
    /\ UNCHANGED <<file, pages, config, error, reads, previews, downloads,
                   urlCount, saved>>

NextDirect == Next \/ GenerateAllNoPages

SpecDirect == Init /\ [][NextDirect]_vars

(***************************************************************************)
(* The component with a synthesis collaborator whose every call settles:   *)
(* the promise awaited at line 73 resolves or rejects in the end.          *)
(***************************************************************************)
SpecFair ==
    /\ Spec
    /\ \A r \in 1..MaxRuns :
          WF_vars(SynthOk(r) \/ \E msg \in ErrMessages : SynthFail(r, msg))

(***************************************************************************)
(* parseFile on its own: the user has selected a file whose text is any    *)
(* sequence of at most MaxPieces pieces, and the read is under way.        *)
(***************************************************************************)
\* markers with numerals that are not positions, near-markers that the
\* regular expression does not match, blanks and body text
Pieces ==
    { <<"P", "a", "g", "e", " ", "1">>,
      <<"P", "A", "G", "E", " ", "\n", "7", "0">>,
      <<"p", "a", "g", "e", "2">>,
      <<"P", "a", "g", "e", " ">>,
      <<" ">>,
      <<"a">>,
      <<"7">> }

RECURSIVE Texts(_)
Texts(n) ==
    IF n = 0 THEN {<<>>}
    ELSE Texts(n - 1) \cup {t \o p : t \in Texts(n - 1), p \in Pieces}

InitParse ==
    /\ file = <<>>
    /\ pages = <<>>
    /\ config = InitConfig
    /\ isProcessing = FALSE
    /\ results = <<>>
    /\ error = "null"
    /\ progress = [current |-> 0, total |-> 0]
    /\ reads \in {<<t>> : t \in Texts(MaxPieces)}
    /\ runs = <<>>
    /\ previews = <<>>
    /\ downloads = <<>>
    /\ urlCount = 0
    /\ saved = <<>>
    /\ lastOp = "selectFile"

NextParse ==
    \/ \E i \in 1..MaxPending : ReadOk(i)
    \/ \E i \in 1..MaxPending : ReadFail(i)

SpecParse == InitParse /\ [][NextParse]_vars

(***************************************************************************)
(* Claims.                                                                 *)
(***************************************************************************)
NoProgress == [current |-> 0, total |-> 0]

\* C1: while a run is in progress (isProcessing), reset, the file input and
\* Generate All are all out of the user's reach.
C1_RunExcludesOtherWriters ==
    isProcessing => ~resetButton /\ ~uploadPanel /\ ~generatePanel

\* C2: when a run whose synthesis calls all succeeded settles, results is as
\* long as pages and results[i].pageId = pages[i].id for every i; while the
\* run is in progress the pageIds of results are a prefix of the page ids,
\* in order.
C2_ResultsFollowPages ==
    (isProcessing \/ lastOp = "runDone") =>
        /\ Len(results) <= Len(pages)
        /\ \A i \in 1..Len(results) : results[i].pageId = pages[i].id
        /\ lastOp = "runDone" => Len(results) = Len(pages)

\* the clip lines 73-80 make of a page under a voice configuration, but for
\* its object URL
Clip(page, cfg) ==
    [pageId |-> page.id, blob |-> generateSpeech(page.content, cfg),
     filename |-> filename(page.id)]

WithoutUrl(res) ==
    [pageId |-> res.pageId, blob |-> res.blob, filename |-> res.filename]

\* C3: when a run settles because synthesis failed on its page k, results
\* holds exactly the clips of pages 1..k-1 in order, generateSpeech was
\* called for pages 1..k and no other, isProcessing is false and error is set.
C3_AbortKeepsPrefix ==
    [][lastOp' = "runFailed" =>
          \E r \in 1..Len(runs) :
             LET run == runs[r]
                 k == run.idx
             IN  /\ runs' = RemoveAt(runs, r)
                 /\ Len(results') = k - 1
                 /\ \A i \in 1..Len(results') :
                       WithoutUrl(results'[i]) = Clip(run.pages[i], run.config)
                 /\ [i \in 1..Len(run.calls) |-> run.calls[i].text]
                       = [i \in 1..k |-> run.pages[i].content]
                 /\ ~isProcessing'
                 /\ error' # "null"]_vars

\* C4: the pageIds in results are pairwise distinct and each is the id of
\* exactly one page of pages.
C4_ResultsKeyPages ==
    /\ \A i, j \in 1..Len(results) :
          i # j => results[i].pageId # results[j].pageId
    /\ \A i \in 1..Len(results) :
          Cardinality({p \in 1..Len(pages) : pages[p].id = results[i].pageId}) = 1

\* C5: from the start of a run until it settles, progress.current never
\* decreases and never exceeds progress.total, whatever the user does.
C5_ProgressMonotone ==
    [][isProcessing =>
          /\ progress'.current >= progress.current
          /\ progress'.current <= progress'.total]_vars

\* C6: results is never longer than progress.total.
C6_ResultsWithinTotal == Len(results) <= progress.total

\* C7: while a run is in progress, progress.total is the number of pages.
C7_TotalIsPageCount == isProcessing => progress.total = Len(pages)

\* C8: at most one generateAll run is in flight, and while one is the
\* Generate All button is not rendered, so that no generation request can
\* change the state of the run.
C8_AtMostOneRun ==
    /\ Len(runs) <= 1
    /\ Len(runs) = 1 => isProcessing /\ ~generatePanel

\* a run is in flight in a state where only the isProcessing test of line 162
\* hides the button
C8_Witness ==
    /\ Len(runs) = 1
    /\ file # <<>>
    /\ Len(pages) > 0
    /\ Len(results) = 0

\* C9: generateAll called while pages is empty starts no run, calls
\* generateSpeech for nothing and changes none of results, progress,
\* isProcessing and error.
C9_NoPagesNoOp ==
    [][(lastOp' = "generateAllNoPages" /\ Len(pages) = 0) =>
          UNCHANGED <<results, progress, isProcessing, error, runs, urlCount>>]_vars

\* generateAll has been called with no pages while the progress of an
\* earlier run was still on display
C9_Witness ==
    /\ lastOp = "generateAllNoPages"
    /\ Len(pages) = 0
    /\ progress.current > 0

\* C10: right after a reset and right after a file load, results is empty,
\* progress is {0, 0} and error is null, pages is empty after the reset and
\* holds the parsed pages after the load; and while no file is loaded no
\* step of an operation begun earlier puts results or progress back.
C10_ClearedTogether ==
    /\ lastOp \in {"reset", "readOk"} =>
          results = <<>> /\ progress = NoProgress /\ error = "null"
    /\ lastOp = "reset" => pages = <<>>
    /\ lastOp = "readOk" => pages = newPages(file[1])
    /\ file = <<>> => results = <<>> /\ progress = NoProgress

\* C11: right after a reset and right after a file load, none of the object
\* URLs of the clips that were in results is still live.
C11_UrlsReleased ==
    [][lastOp' \in {"reset", "readOk"} =>
          \A i \in 1..Len(results) : results[i].url \notin liveUrls']_vars

PreviewSteps == {"previewSample", "previewOk", "previewFail"}

\* C12 as stated: no step of previewSample, whether its synthesis call
\* succeeds or fails, changes pages, config, results, progress, isProcessing
\* or error, nor the run in flight.
C12_PreviewChangesNothing ==
    [][lastOp' \in PreviewSteps =>
          UNCHANGED <<pages, config, results, progress, isProcessing, error,
                      runs>>]_vars

\* C12 as amended: no step of previewSample changes pages, config, results,
\* progress or isProcessing, nor the run in flight; error is left alone
\* unless the synthesis call fails, and then it becomes "Failed to preview
\* audio."
C12_PreviewOnlySetsError ==
    [][lastOp' \in PreviewSteps =>
          /\ UNCHANGED <<pages, config, results, progress, isProcessing, runs>>
          /\ lastOp' # "previewFail" => UNCHANGED error
          /\ lastOp' = "previewFail" => error' = "Failed to preview audio."]_vars

\* a preview has failed while a generation run was in flight
C12_Witness ==
    /\ lastOp = "previewFail"
    /\ Len(runs) = 1
    /\ isProcessing

\* C13: when archive generation fails in downloadAll, error is non-null after
\* the failure, nothing has been saved by it, and results is unchanged.
C13_DownloadFailureRecorded ==
    [][lastOp' = "downloadFail" =>
          /\ error' # "null"
          /\ UNCHANGED <<saved, results>>]_vars

\* C14: whenever the download button is there (isComplete), the archive that
\* downloadAll builds holds exactly one entry per page of pages, named
\* Page_<id>.wav after that page's id, and no other entry.
C14_ArchiveMatchesPages ==
    isComplete =>
        LET zip == zipAll(<<>>, results)
        IN  /\ Len(zip) = Len(pages)
            /\ \A p \in 1..Len(pages) :
                   Cardinality({e \in 1..Len(zip) :
                                   zip[e].name = filename(pages[p].id)}) = 1
            /\ \A e \in 1..Len(zip) :
                   \E p \in 1..Len(pages) : zip[e].name = filename(pages[p].id)

\* C15: right after a run has aborted on a failed synthesis call, whatever the
\* page it failed on, the Generate All button is rendered again.
C15_RetryAfterAbort ==
    lastOp = "runFailed" => generatePanel

\* C20: in every state with no run and no file read in flight, at least one of
\* select file, generate, reset and download is offered.
C20_SomeActionAvailable ==
    (Len(runs) = 0 /\ Len(reads) = 0) =>
        uploadPanel \/ generatePanel \/ resetButton \/ downloadButton

\* the positions of the non-blank fragments of text.split(/Page\s+\d+/i)
NonBlank(frags) == {j \in 1..Len(frags) : trim(frags[j]) # <<>>}

\* C16: after parseFile, pages has one page per non-blank fragment of the
\* split, in the order of the split, and the k-th of them has id k, whatever
\* numerals the markers carry.
C16_IdsArePositions ==
    lastOp = "readOk" =>
        LET frags == split(file[1])
            n == Cardinality(NonBlank(frags))
        IN  /\ Len(pages) = n
            /\ \A k \in 1..n :
                   /\ pages[k].id = k
                   /\ \E j \in NonBlank(frags) :
                          /\ Cardinality({m \in NonBlank(frags) : m <= j}) = k
                          /\ pages[k].content = trim(frags[j])

\* a file with the markers "PAGE 70" and "Page 1" was parsed into two pages
C16_Witness ==
    /\ lastOp = "readOk"
    /\ Len(pages) = 2
    /\ \E i \in 1..Len(file[1]) - 1 : file[1][i] = "7" /\ file[1][i + 1] = "0"
    /\ \E i \in 1..Len(file[1]) : file[1][i] = "1"
    /\ pages[1].content # pages[2].content

\* C19: every generateSpeech call of a run gets the configuration that was
\* current when the run started, which is still the current one: config
\* does not change while a run is in flight, whatever the user does.
C19_OneConfigPerRun ==
    /\ [](\A r \in 1..Len(runs) :
             \A c \in 1..Len(runs[r].calls) : runs[r].calls[c].config = config)
    /\ [][Len(runs) > 0 => UNCHANGED config]_vars

\* a run started after the user picked another emotion has made its second
\* call
C19_Witness ==
    /\ config # InitConfig
    /\ \E r \in 1..Len(runs) : Len(runs[r].calls) = 2

\* C17: when the synthesis call for page k of a run succeeds and the run goes
\* on, then at the time the call for page k+1 is out, results holds exactly k
\* clips, the last of them page k's, and progress.current is k.
C17_ClipVisibleBeforeNextCall ==
    [][lastOp' = "pageDone" =>
          \E r \in 1..Len(runs) :
             LET run == runs[r]
                 k == run.idx
             IN  /\ runs'[r].idx = k + 1
                 /\ Len(runs'[r].calls) = k + 1
                 /\ Len(results') = k
                 /\ results'[k].pageId = run.pages[k].id
                 /\ progress'.current = k]_vars

\* C18: with a collaborator whose every call settles, every run settles in
\* the end, leaving isProcessing false; and a run settles only right after
\* its last page succeeded or right after a call of it failed.
C18_RunsSettle ==
    /\ (Len(runs) > 0) ~> (Len(runs) = 0 /\ ~isProcessing)
    /\ [][Len(runs') < Len(runs) =>
             /\ ~isProcessing'
             /\ \/ lastOp' = "runFailed"
                \/ /\ lastOp' = "runDone"
                   /\ \E r \in 1..Len(runs) :
                         /\ runs' = RemoveAt(runs, r)
                         /\ Len(runs[r].calls) = Len(runs[r].pages)]_vars

\* a run has settled on a failed call after an earlier page had succeeded
C18_Witness ==
    /\ lastOp = "runFailed"
    /\ Len(results) >= 1
    /\ ~isProcessing

====
